---- MODULE Spec2Model ----
(***************************************************************************)
(* Model of the hintents RPC client configuration code:                    *)
(*   - the Go client builder (internal/rpc/builder.go): the functional     *)
(*     options, NewClient, validate and build;                             *)
(*   - the per-URL failure table of the built client;                      *)
(*   - Go ParseHeaders and the TypeScript RPCConfigParser (parseUrls,      *)
(*     parseHeaders, isValidUrl, loadConfig).                              *)
(***************************************************************************)
EXTENDS Integers, Sequences, FiniteSets, TLC

VARIABLES
    opts,       \* NewClient: the options passed by the caller (opts ...ClientOption)
    idx,        \* NewClient: index of the next option of the range loop
    builder,    \* NewClient: the *clientBuilder the options mutate
    pc,         \* NewClient: position in the function body
    err,        \* NewClient: the returned error ("" is nil)
    client,     \* NewClient: the returned *Client (<<>> is nil, <<c>> is &c);
                \* its failures and lastFailure maps are the failure table
    now,        \* failure table: the clock, in milliseconds
    mu,         \* failure table: the holder of the client's lock (0 is free)
    procs,      \* failure table: the callers recording request outcomes
    history,    \* failure table: per URL, the recorded failures that took effect
                \* since the last recorded success, and the time of the last one
    arg,        \* parsers: the argument of the calls (and the environment read)
    ret         \* parsers: what each function called so far returned, by name

vars == <<opts, idx, builder, pc, err, client, now, mu, procs, history, arg, ret>>
newClientVars == <<opts, idx, builder, pc, err>>
trackerVars == <<now, mu, procs, history>>
parserVars == <<arg, ret>>

(***************************************************************************)
(* Bounds of the model.                                                    *)
(***************************************************************************)
MaxOpts == 3
NumProcs == 2
MaxFailures == 5
TickStep == 20000
MaxTime == 60000
MaxMembers == 2
MaxHeaderLen == 4
MaxUrls == 2
MaxPad == 1

(***************************************************************************)
(* Networks, endpoints and network configurations (package rpc).           *)
(***************************************************************************)
Mainnet == "mainnet"
Testnet == "testnet"
Futurenet == "futurenet"

MainnetHorizonURL == "https://horizon.stellar.org/"
TestnetHorizonURL == "https://horizon-testnet.stellar.org/"
FuturenetHorizonURL == "https://horizon-futurenet.stellar.org/"
MainnetSorobanURL == "https://mainnet.sorobanrpc.com"
TestnetSorobanURL == "https://soroban-testnet.stellar.org"
FuturenetSorobanURL == "https://rpc-futurenet.stellar.org"

NetConfig(name, horizon, soroban, pass) ==
    [Name |-> name, HorizonURL |-> horizon, SorobanRPCURL |-> soroban,
     NetworkPassphrase |-> pass]

MainnetConfig ==
    NetConfig(Mainnet, MainnetHorizonURL, MainnetSorobanURL, "Public Global Stellar Network")
TestnetConfig ==
    NetConfig(Testnet, TestnetHorizonURL, TestnetSorobanURL, "Test SDF Network")
FuturenetConfig ==
    NetConfig(Futurenet, FuturenetHorizonURL, FuturenetSorobanURL, "Test SDF Future Network")

\* The scheme a URL string parses to ("" when it does not parse as an
\* absolute URL).
Scheme(u) ==
    CASE u \in {MainnetHorizonURL, TestnetHorizonURL, FuturenetHorizonURL,
                MainnetSorobanURL, TestnetSorobanURL, FuturenetSorobanURL,
                "https://custom.horizon.org", "https://url1.org",
                "https://url2.org", "https://custom.soroban.org",
                "https://custom.org", "https://rpc1.com"} -> "https"
      [] u \in {"http://localhost:8080"} -> "http"
      [] u \in {"ftp://wrong.com"} -> "ftp"
      [] OTHER -> ""

\* isValidURL(s): nil ("") iff s is an absolute http or https URL.
isValidURL(u) ==
    IF Scheme(u) \in {"http", "https"} THEN "" ELSE "invalid URL"

\* ValidateNetworkConfig(cfg): name, primary URL and passphrase are required.
ValidateNetworkConfig(cfg) ==
    IF cfg.Name = "" THEN "network name is required"
    ELSE IF isValidURL(cfg.HorizonURL) # "" THEN "invalid horizon URL"
    ELSE IF cfg.NetworkPassphrase = "" THEN "network passphrase is required"
    ELSE ""

WrapValidationError(msg) == "validation error: " \o msg

(***************************************************************************)
(* The client builder.                                                     *)
(***************************************************************************)
defaultHTTPTimeout == 15

EmptyHeaders == <<>>

\* newBuilder(), followed by the ERST_RPC_TOKEN read of NewClient.
newBuilder(envToken) ==
    [network |-> Mainnet,
     token |-> envToken,
     horizonURL |-> "",
     sorobanURL |-> "",
     altURLs |-> <<>>,
     cacheEnabled |-> TRUE,
     config |-> <<>>,
     httpClient |-> <<>>,
     requestTimeout |-> defaultHTTPTimeout,
     headers |-> EmptyHeaders]

\* Each option is a function from the builder to <<builder', error>>.
WithNetwork(b, net) ==
    <<[b EXCEPT !.network = IF net = "" THEN Mainnet ELSE net], "">>

WithToken(b, token) == <<[b EXCEPT !.token = token], "">>

WithHeaders(b, headers) == <<[b EXCEPT !.headers = headers], "">>

\* Faulty variant: the URL is stored without being validated.
WithHorizonURL_NoCheck(b, url) ==
    <<[b EXCEPT !.horizonURL = url, !.altURLs = <<url>>], "">>

WithHorizonURL(b, url) ==
    IF url # "" /\ isValidURL(url) # ""
    THEN <<b, WrapValidationError("invalid HorizonURL")>>
    ELSE <<[b EXCEPT !.horizonURL = url, !.altURLs = <<url>>], "">>

\* Faulty variant: the list is stored before its entries are validated.
WithAltURLs_StoreFirst(b, urls) ==
    LET b1 == IF Len(urls) > 0
              THEN [b EXCEPT !.altURLs = urls, !.horizonURL = urls[1]]
              ELSE b
    IN  IF \E i \in 1..Len(urls) : isValidURL(urls[i]) # ""
        THEN <<b1, WrapValidationError("invalid URL in altURLs")>>
        ELSE <<b1, "">>

WithAltURLs(b, urls) ==
    IF \E i \in 1..Len(urls) : isValidURL(urls[i]) # ""
    THEN <<b, WrapValidationError("invalid URL in altURLs")>>
    ELSE IF Len(urls) > 0
         THEN <<[b EXCEPT !.altURLs = urls, !.horizonURL = urls[1]], "">>
         ELSE <<b, "">>

WithSorobanURL(b, url) ==
    IF url # "" /\ isValidURL(url) # ""
    THEN <<b, WrapValidationError("invalid SorobanURL")>>
    ELSE <<[b EXCEPT !.sorobanURL = url], "">>

WithNetworkConfig(b, cfg) ==
    IF ValidateNetworkConfig(cfg) # ""
    THEN <<b, WrapValidationError("invalid network config")>>
    ELSE <<[b EXCEPT !.config = <<cfg>>,
                     !.network = cfg.Name,
                     !.horizonURL = cfg.HorizonURL,
                     !.sorobanURL = cfg.SorobanRPCURL], "">>

WithCacheEnabled(b, enabled) == <<[b EXCEPT !.cacheEnabled = enabled], "">>

WithRequestTimeout(b, d) == <<[b EXCEPT !.requestTimeout = d], "">>

WithHTTPClient(b, c) == <<[b EXCEPT !.httpClient = c], "">>

\* Faulty variant: the Futurenet case is missing.
getDefaultHorizonURL_NoFuturenet(net) ==
    CASE net = Testnet -> TestnetHorizonURL
      [] OTHER -> MainnetHorizonURL

getDefaultHorizonURL(net) ==
    CASE net = Testnet -> TestnetHorizonURL
      [] net = Futurenet -> FuturenetHorizonURL
      [] OTHER -> MainnetHorizonURL

getDefaultSorobanURL(net) ==
    CASE net = Testnet -> TestnetSorobanURL
      [] net = Futurenet -> FuturenetSorobanURL
      [] OTHER -> MainnetSorobanURL

getConfig(net) ==
    CASE net = Testnet -> TestnetConfig
      [] net = Futurenet -> FuturenetConfig
      [] OTHER -> MainnetConfig

\* (b *clientBuilder) validate(): the builder after the call (the error is
\* always nil).
validate(b) ==
    LET b1 == IF b.network = "" THEN [b EXCEPT !.network = Mainnet] ELSE b
    IN  IF b1.horizonURL = "" /\ b1.sorobanURL = ""
        THEN [b1 EXCEPT !.horizonURL = getDefaultHorizonURL(b1.network)]
        ELSE b1

createHTTPClient(token, headers, timeout) ==
    <<[injected |-> FALSE, token |-> token, headers |-> headers, timeout |-> timeout]>>

\* The failure maps a new Client starts with: make(map[string]int) and
\* make(map[string]time.Time).
NewFailures == <<>>
NewLastFailure == <<>>

\* Faulty variant: the failure map is filled from the URL list instead of being empty.
build_PresetFailures(b) ==
    LET hz == IF b.horizonURL = "" THEN b.config[1].HorizonURL ELSE b.horizonURL
        alt == IF Len(b.altURLs) = 0 THEN <<hz>> ELSE b.altURLs
    IN  [HorizonURL |-> hz,
         Horizon |-> [HorizonURL |-> hz, HTTP |-> b.httpClient],
         Network |-> b.network,
         SorobanURL |-> b.sorobanURL,
         AltURLs |-> alt,
         httpClient |-> b.httpClient,
         token |-> b.token,
         Config |-> IF b.config = <<>> THEN getConfig(b.network) ELSE b.config[1],
         CacheEnabled |-> b.cacheEnabled,
         Headers |-> b.headers,
         failures |-> [u \in {alt[i] : i \in 1..Len(alt)} |-> Len(alt)],
         lastFailure |-> NewLastFailure]

\* (b *clientBuilder) build(): the Client it returns (the error is always nil).
build(b) ==
    LET b1 == IF b.sorobanURL = ""
              THEN [b EXCEPT !.sorobanURL = getDefaultSorobanURL(b.network)]
              ELSE b
        b2 == IF b1.config = <<>>
              THEN [b1 EXCEPT !.config = <<getConfig(b1.network)>>]
              ELSE b1
        b3 == IF b2.httpClient = <<>>
              THEN [b2 EXCEPT !.httpClient =
                        createHTTPClient(b2.token, b2.headers, b2.requestTimeout)]
              ELSE b2
        b4 == IF Len(b3.altURLs) = 0 /\ b3.horizonURL # ""
              THEN [b3 EXCEPT !.altURLs = <<b3.horizonURL>>]
              ELSE b3
        b5 == IF b4.horizonURL = ""
              THEN [b4 EXCEPT !.horizonURL = b4.config[1].HorizonURL]
              ELSE b4
        b6 == IF Len(b5.altURLs) = 0
              THEN [b5 EXCEPT !.altURLs = <<b5.horizonURL>>]
              ELSE b5
    IN  [HorizonURL |-> b6.horizonURL,
         Horizon |-> [HorizonURL |-> b6.horizonURL, HTTP |-> b6.httpClient],
         Network |-> b6.network,
         SorobanURL |-> b6.sorobanURL,
         AltURLs |-> b6.altURLs,
         httpClient |-> b6.httpClient,
         token |-> b6.token,
         Config |-> b6.config[1],
         CacheEnabled |-> b6.cacheEnabled,
         Headers |-> b6.headers,
         failures |-> NewFailures,
         lastFailure |-> NewLastFailure]

(***************************************************************************)
(* The option values a caller passes to NewClient.                         *)
(***************************************************************************)
BadURL == "not a valid url"
CustomConfig ==
    NetConfig("custom", "https://custom.org", "", "custom network")
NamelessConfig ==
    NetConfig("", "https://custom.org", "", "custom network")
InjectedHTTPClient ==
    <<[injected |-> TRUE, token |-> "", headers |-> EmptyHeaders, timeout |-> 0]>>

Options ==
    {[kind |-> "WithNetwork", net |-> n] : n \in {"", Testnet, Futurenet, "standalone"}}
    \cup {[kind |-> "WithHorizonURL", url |-> u] :
            u \in {"", "https://custom.horizon.org", BadURL}}
    \cup {[kind |-> "WithAltURLs", urls |-> us] :
            us \in {<<>>, <<"https://url1.org", "https://url2.org">>,
                    <<"https://url1.org", "ftp://wrong.com">>}}
    \cup {[kind |-> "WithSorobanURL", url |-> u] :
            u \in {"", "https://custom.soroban.org", BadURL}}
    \cup {[kind |-> "WithNetworkConfig", cfg |-> c] :
            c \in {TestnetConfig, CustomConfig, NamelessConfig}}
    \cup {[kind |-> "WithToken", token |-> "test-token-123"]}
    \cup {[kind |-> "WithHeaders", headers |-> [h \in {"X-Test"} |-> "header"]]}
    \cup {[kind |-> "WithCacheEnabled", enabled |-> FALSE]}
    \cup {[kind |-> "WithRequestTimeout", d |-> 0]}
    \cup {[kind |-> "WithHTTPClient", c |-> InjectedHTTPClient]}

\* opt(builder) for an option value.
ApplyOpt(b, o) ==
    CASE o.kind = "WithNetwork" -> WithNetwork(b, o.net)
      [] o.kind = "WithHorizonURL" -> WithHorizonURL(b, o.url)
      [] o.kind = "WithAltURLs" -> WithAltURLs(b, o.urls)
      [] o.kind = "WithSorobanURL" -> WithSorobanURL(b, o.url)
      [] o.kind = "WithNetworkConfig" -> WithNetworkConfig(b, o.cfg)
      [] o.kind = "WithToken" -> WithToken(b, o.token)
      [] o.kind = "WithHeaders" -> WithHeaders(b, o.headers)
      [] o.kind = "WithCacheEnabled" -> WithCacheEnabled(b, o.enabled)
      [] o.kind = "WithRequestTimeout" -> WithRequestTimeout(b, o.d)
      [] o.kind = "WithHTTPClient" -> WithHTTPClient(b, o.c)

\* The builder after options os[1..n] were applied in order to b.
RECURSIVE Applied(_, _, _)
Applied(b, os, n) ==
    IF n = 0 THEN b ELSE ApplyOpt(Applied(b, os, n - 1), os[n])[1]

(***************************************************************************)
(* NewClient(opts...): one step per iteration of the option loop, then     *)
(* validate, then build.                                                   *)
(***************************************************************************)
EnvTokens == {"", "env-token"}

Procs == 1..NumProcs
IdleProc == [pc |-> "idle"]

Init ==
    /\ opts \in UNION {[1..n -> Options] : n \in 0..MaxOpts}
    /\ idx = 1
    /\ \E t \in EnvTokens : builder = newBuilder(t)
    /\ pc = "options"
    /\ err = ""
    /\ client = <<>>
    /\ now = 0
    /\ mu = 0
    /\ procs = [p \in Procs |-> IdleProc]
    /\ history = <<>>
    /\ arg = <<>>
    /\ ret = <<>>

\* Faulty variant: the loop goes on to the next option after a failing one.
ApplyOption_ContinueOnError ==
    /\ pc = "options"
    /\ idx <= Len(opts)
    /\ LET r == ApplyOpt(builder, opts[idx])
       IN  /\ builder' = r[1]
           /\ err' = IF r[2] # "" THEN r[2] ELSE err
           /\ idx' = idx + 1
    /\ UNCHANGED <<opts, pc, client, trackerVars, parserVars>>

\* for _, opt := range opts { if err := opt(builder); err != nil { return nil, err } }
ApplyOption ==
    /\ pc = "options"
    /\ idx <= Len(opts)
    /\ LET r == ApplyOpt(builder, opts[idx])
       IN  /\ builder' = r[1]
           /\ IF r[2] # ""
              THEN /\ err' = r[2]
                   /\ pc' = "returned"
                   /\ idx' = idx
              ELSE /\ err' = err
                   /\ pc' = pc
                   /\ idx' = idx + 1
    /\ UNCHANGED <<opts, client, trackerVars, parserVars>>

\* if err := builder.validate(); err != nil { return nil, err }
Validate ==
    /\ pc = "options"
    /\ idx > Len(opts)
    /\ builder' = validate(builder)
    /\ pc' = "build"
    /\ UNCHANGED <<opts, idx, err, client, trackerVars, parserVars>>

\* return builder.build()
Build ==
    /\ pc = "build"
    /\ client' = <<build(builder)>>
    /\ pc' = "returned"
    /\ UNCHANGED <<opts, idx, builder, err, trackerVars, parserVars>>

Next == ApplyOption \/ Validate \/ Build

Spec == Init /\ [][Next]_vars

(***************************************************************************)
(* The failure table of a built client: failures and lastFailure, keyed by *)
(* URL, updated by the callers that report request outcomes.               *)
(***************************************************************************)
circuitBreakerThreshold == 5
circuitBreakerTimeout == 60000

\* m[u] of a Go map: the zero value for a missing key.
Get(m, u) == IF u \in DOMAIN m THEN m[u] ELSE 0
Put(m, u, v) == [x \in DOMAIN m \cup {u} |-> IF x = u THEN v ELSE m[x]]
Delete(m, u) == [x \in DOMAIN m \ {u} |-> m[x]]

\* isEligible(url): not OPEN, i.e. fewer than circuitBreakerThreshold
\* consecutive failures, or circuitBreakerTimeout elapsed since the last one.
isEligible(c, u, t) ==
    \/ Get(c.failures, u) < circuitBreakerThreshold
    \/ u \in DOMAIN c.lastFailure /\ t - c.lastFailure[u] >= circuitBreakerTimeout

\* recordFailure(url), the update made under the lock, from the count read.
recordFailure(c, u, read, t) ==
    [c EXCEPT !.failures = Put(c.failures, u, read + 1),
              !.lastFailure = Put(c.lastFailure, u, t)]

\* recordSuccess(url), the update made under the lock.
recordSuccess(c, u) ==
    [c EXCEPT !.failures = Put(c.failures, u, 0),
              !.lastFailure = Delete(c.lastFailure, u)]

\* The client NewClient(os...) returns when no option fails.
NewClientOf(os) ==
    build(validate(Applied(newBuilder(""), os, Len(os))))

TrackedOpts ==
    {<<>>,
     <<[kind |-> "WithAltURLs", urls |-> <<"https://url1.org", "https://url2.org">>]>>}

URLsOf(c) == {c.AltURLs[i] : i \in 1..Len(c.AltURLs)}

TrackerInit ==
    /\ opts \in TrackedOpts
    /\ idx = Len(opts) + 1
    /\ builder = validate(Applied(newBuilder(""), opts, Len(opts)))
    /\ pc = "returned"
    /\ err = ""
    /\ client = <<NewClientOf(opts)>>
    /\ now = 0
    /\ mu = 0
    /\ procs = [p \in Procs |-> IdleProc]
    /\ history = [u \in URLsOf(client[1]) |-> [fails |-> 0, lastAt |-> -1]]
    /\ arg = <<>>
    /\ ret = <<>>

\* A caller enters recordFailure(u) or recordSuccess(u) and waits for the lock.
Call(p) ==
    /\ procs[p].pc = "idle"
    /\ \E op \in {"recordFailure", "recordSuccess"}, u \in URLsOf(client[1]) :
          /\ op = "recordFailure" => Get(client[1].failures, u) < MaxFailures
          /\ procs' = [procs EXCEPT ![p] = [pc |-> "lock", op |-> op, url |-> u, read |-> 0]]
    /\ UNCHANGED <<newClientVars, client, now, mu, history, parserVars>>

\* Faulty variant: the lock is taken without waiting for it to be free.
Lock_NoWait(p) ==
    /\ procs[p].pc = "lock"
    /\ mu' = p
    /\ procs' = [procs EXCEPT ![p].pc = "locked"]
    /\ UNCHANGED <<newClientVars, client, now, history, parserVars>>

\* The caller takes the client's lock.
Lock(p) ==
    /\ procs[p].pc = "lock"
    /\ mu = 0
    /\ mu' = p
    /\ procs' = [procs EXCEPT ![p].pc = "locked"]
    /\ UNCHANGED <<newClientVars, client, now, history, parserVars>>

\* recordFailure: the read of failures[url].
LoadFailures(p) ==
    /\ procs[p].pc = "locked"
    /\ procs[p].op = "recordFailure"
    /\ procs' = [procs EXCEPT ![p].pc = "store",
                               ![p].read = Get(client[1].failures, procs[p].url)]
    /\ UNCHANGED <<newClientVars, client, now, mu, history, parserVars>>

\* recordFailure: failures[url] = read + 1, lastFailure[url] = now, unlock.
StoreFailure(p) ==
    /\ procs[p].pc = "store"
    /\ LET u == procs[p].url
       IN  /\ client' = <<recordFailure(client[1], u, procs[p].read, now)>>
           /\ history' = [history EXCEPT ![u] = [fails |-> @.fails + 1, lastAt |-> now]]
    /\ mu' = 0
    /\ procs' = [procs EXCEPT ![p] = IdleProc]
    /\ UNCHANGED <<newClientVars, now, parserVars>>

\* recordSuccess: failures[url] = 0, lastFailure[url] cleared, unlock.
StoreSuccess(p) ==
    /\ procs[p].pc = "locked"
    /\ procs[p].op = "recordSuccess"
    /\ LET u == procs[p].url
       IN  /\ client' = <<recordSuccess(client[1], u)>>
           /\ history' = [history EXCEPT ![u] = [fails |-> 0, lastAt |-> -1]]
    /\ mu' = 0
    /\ procs' = [procs EXCEPT ![p] = IdleProc]
    /\ UNCHANGED <<newClientVars, now, parserVars>>

\* Time passes.
Tick ==
    /\ now < MaxTime
    /\ now' = now + TickStep
    /\ UNCHANGED <<newClientVars, client, mu, procs, history, parserVars>>

TrackerNext ==
    \/ \E p \in Procs : Call(p)
    \/ \E p \in Procs : Lock(p)
    \/ \E p \in Procs : LoadFailures(p)
    \/ \E p \in Procs : StoreFailure(p)
    \/ \E p \in Procs : StoreSuccess(p)
    \/ Tick

SpecTracker == TrackerInit /\ [][TrackerNext]_vars

(***************************************************************************)
(* Strings of the parsers are sequences of characters.                     *)
(***************************************************************************)
Min(S) == CHOOSE x \in S : \A y \in S : x <= y
Max(S) == CHOOSE x \in S : \A y \in S : y <= x

\* The index of the first character of s that is in set cs, 0 when there is
\* none (strings.IndexAny, String.prototype.indexOf).
IndexAny(s, cs) ==
    LET at == {i \in 1..Len(s) : s[i] \in cs}
    IN  IF at = {} THEN 0 ELSE Min(at)

\* strings.TrimSpace, String.prototype.trim.
TrimSpace(s) ==
    LET at == {i \in 1..Len(s) : s[i] # " "}
    IN  IF at = {} THEN <<>> ELSE SubSeq(s, Min(at), Max(at))

\* strings.Split(s, sep), s.split(sep): the empty string gives one empty part.
RECURSIVE Split(_, _)
Split(s, sep) ==
    LET i == IndexAny(s, {sep})
    IN  IF i = 0 THEN <<s>>
        ELSE <<SubSeq(s, 1, i - 1)>> \o Split(SubSeq(s, i + 1, Len(s)), sep)

Digits == <<"0", "1", "2", "3", "4", "5", "6", "7", "8", "9">>
IsDigit(c) == \E d \in 1..Len(Digits) : Digits[d] = c
DigitValue(c) == (CHOOSE d \in 1..Len(Digits) : Digits[d] = c) - 1

\* The number a run of decimal digits denotes.
RECURSIVE ParseNat(_)
ParseNat(ds) ==
    IF ds = <<>> THEN 0
    ELSE ParseNat(SubSeq(ds, 1, Len(ds) - 1)) * 10 + DigitValue(ds[Len(ds)])

\* The decimal text of a natural number (String(n), strconv).
RECURSIVE FormatNat(_)
FormatNat(n) ==
    IF n < 10 THEN <<Digits[n + 1]>>
    ELSE FormatNat(n \div 10) \o <<Digits[(n % 10) + 1]>>

(***************************************************************************)
(* JSON texts (encoding/json, JSON.parse), for objects whose values are    *)
(* strings without escapes or unsigned integers; any other text is         *)
(* reported as not being an object.                                        *)
(***************************************************************************)
JSONFail == [ok |-> FALSE, members |-> <<>>]

\* The first index >= i of s that holds no white space (Len(s) + 1 at the end).
SkipSpace(s, i) ==
    LET at == {j \in i..Len(s) : s[j] # " "}
    IN  IF at = {} THEN Len(s) + 1 ELSE Min(at)

\* A string literal starting at s[i]: its text and the index after it.
JSONString(s, i) ==
    IF i > Len(s) \/ s[i] # "\""
    THEN [ok |-> FALSE, str |-> <<>>, next |-> i]
    ELSE LET close == {j \in (i + 1)..Len(s) : s[j] = "\""}
         IN  IF close = {} THEN [ok |-> FALSE, str |-> <<>>, next |-> i]
             ELSE [ok |-> TRUE, str |-> SubSeq(s, i + 1, Min(close) - 1),
                   next |-> Min(close) + 1]

\* A number starting at s[i]: its value and the index after it.
JSONNumber(s, i) ==
    LET stop == {j \in i..Len(s) : ~IsDigit(s[j])}
        end == IF stop = {} THEN Len(s) ELSE Min(stop) - 1
    IN  IF end < i \/ (end > i /\ s[i] = "0")
        THEN [ok |-> FALSE, num |-> 0, next |-> i]
        ELSE [ok |-> TRUE, num |-> ParseNat(SubSeq(s, i, end)), next |-> end + 1]

\* The members of an object from s[i] on, i being after "{" or ",".
RECURSIVE JSONMembers(_, _, _)
JSONMembers(s, i, acc) ==
    LET k == JSONString(s, SkipSpace(s, i))
        colon == SkipSpace(s, k.next)
        v == SkipSpace(s, colon + 1)
        vs == JSONString(s, v)
        vn == JSONNumber(s, v)
        after == SkipSpace(s, IF vs.ok THEN vs.next ELSE vn.next)
        member == [key |-> k.str, isString |-> vs.ok, str |-> vs.str, num |-> vn.num]
    IN  IF ~k.ok \/ colon > Len(s) \/ s[colon] # ":" THEN JSONFail
        ELSE IF ~vs.ok /\ ~vn.ok THEN JSONFail
        ELSE IF after > Len(s) THEN JSONFail
        ELSE IF s[after] = "," THEN JSONMembers(s, after + 1, Append(acc, member))
        ELSE IF s[after] = "}" /\ SkipSpace(s, after + 1) > Len(s)
             THEN [ok |-> TRUE, members |-> Append(acc, member)]
        ELSE JSONFail

\* The text s as a JSON object: its members in order, or not ok.
JSONObject(s) ==
    LET open == SkipSpace(s, 1)
        first == SkipSpace(s, open + 1)
    IN  IF open > Len(s) \/ s[open] # "{" THEN JSONFail
        ELSE IF first <= Len(s) /\ s[first] = "}"
             THEN IF SkipSpace(s, first + 1) > Len(s)
                  THEN [ok |-> TRUE, members |-> <<>>]
                  ELSE JSONFail
        ELSE JSONMembers(s, open + 1, <<>>)

\* The map that results from assigning vals[i] to keys[i] in order.
RECURSIVE Assign(_, _)
Assign(m, kvs) ==
    IF kvs = <<>> THEN m
    ELSE Assign(Put(m, kvs[1][1], kvs[1][2]), Tail(kvs))

(***************************************************************************)
(* ParseHeaders (Go) and RPCConfigParser.parseHeaders (TypeScript).        *)
(***************************************************************************)
\* json.Unmarshal([]byte(input), &obj) with obj a map[string]string: an error
\* when the text is no object or a value is not a string.
UnmarshalStringMap(input) ==
    LET o == JSONObject(input)
    IN  IF o.ok /\ \A i \in 1..Len(o.members) : o.members[i].isString
        THEN [err |-> FALSE,
              obj |-> Assign(<<>>, [i \in 1..Len(o.members) |->
                                      <<o.members[i].key, o.members[i].str>>])]
        ELSE [err |-> TRUE, obj |-> <<>>]

\* The loop body of ParseHeaders for one part: the pairs it adds.
GoHeaderPart(part0) ==
    LET part == TrimSpace(part0)
        i == IndexAny(part, {"=", ":"})
        key == TrimSpace(SubSeq(part, 1, i - 1))
        value == TrimSpace(SubSeq(part, i + 1, Len(part)))
    IN  IF part = <<>> THEN <<>>
        ELSE IF i = 0 THEN <<>>
        ELSE IF key # <<>> /\ value # <<>> THEN <<<<key, value>>>>
        ELSE <<>>

RECURSIVE Flatten(_)
Flatten(ss) == IF ss = <<>> THEN <<>> ELSE ss[1] \o Flatten(Tail(ss))

\* ParseHeaders(input) of builder.go.
ParseHeaders(input) ==
    LET u == UnmarshalStringMap(input)
        parts == Split(input, ",")
    IN  IF input = <<>> THEN <<>>
        ELSE IF ~u.err THEN u.obj
        ELSE Assign(<<>>, Flatten([i \in 1..Len(parts) |-> GoHeaderPart(parts[i])]))

\* String(value) of a parsed JSON value.
JSString(member) ==
    IF member.isString THEN member.str ELSE FormatNat(member.num)

\* The forEach body of parseHeaders for one pair: the entries it adds.
TsHeaderPair(pair) ==
    LET eq == IndexAny(pair, {"="})
        sepIdx == IF eq # 0 THEN eq ELSE IndexAny(pair, {":"})
        key == TrimSpace(SubSeq(pair, 1, sepIdx - 1))
        value == TrimSpace(SubSeq(pair, sepIdx + 1, Len(pair)))
    IN  IF sepIdx = 0 THEN <<>>
        ELSE IF key # <<>> /\ value # <<>> THEN <<<<key, value>>>>
        ELSE <<>>

\* RPCConfigParser.parseHeaders(input).
parseHeaders(input) ==
    LET o == JSONObject(input)
        pairs == Split(input, ",")
    IN  IF o.ok
        THEN Assign(<<>>, [i \in 1..Len(o.members) |->
                              <<o.members[i].key, JSString(o.members[i])>>])
        ELSE Assign(<<>>, Flatten([i \in 1..Len(pairs) |-> TsHeaderPair(pairs[i])]))

\* The JSON text of an object with the given members, as JSON.stringify
\* writes it.
MemberText(m) ==
    <<"\"">> \o m.key \o <<"\"", ":">> \o
    (IF m.isString THEN <<"\"">> \o m.str \o <<"\"">> ELSE FormatNat(m.num))

RECURSIVE MembersText(_)
MembersText(ms) ==
    IF ms = <<>> THEN <<>>
    ELSE IF Len(ms) = 1 THEN MemberText(ms[1])
    ELSE MemberText(ms[1]) \o <<",">> \o MembersText(Tail(ms))

Stringify(ms) == <<"{">> \o MembersText(ms) \o <<"}">>

StringMember(k, v) == [key |-> k, isString |-> TRUE, str |-> v, num |-> 0]
NumberMember(k, n) == [key |-> k, isString |-> FALSE, str |-> <<>>, num |-> n]

HeaderKeys == {<<"A">>, <<"B">>}
HeaderMembers ==
    {StringMember(k, v) : k \in HeaderKeys, v \in {<<"1">>, <<>>}}
    \cup {NumberMember(k, n) : k \in HeaderKeys, n \in {2, 10}}

HeaderChars == {"X", "1", "=", ":", ",", " "}

SeqsUpTo(S, n) == UNION {[1..k -> S] : k \in 0..n}

\* The header strings of the model: the JSON text of an object, such a text
\* cut short, or key=value text.
JSONArg(d) == [kind |-> "json", doc |-> d, input |-> Stringify(d)]
CutArg(d) ==
    [kind |-> "cut", doc |-> d, input |-> SubSeq(Stringify(d), 1, Len(Stringify(d)) - 1)]
PairsArg(t) == [kind |-> "pairs", doc |-> <<>>, input |-> t]

HeadersInit ==
    /\ opts = <<>>
    /\ idx = 1
    /\ builder = newBuilder("")
    /\ pc = "options"
    /\ err = ""
    /\ client = <<>>
    /\ now = 0
    /\ mu = 0
    /\ procs = [p \in Procs |-> IdleProc]
    /\ history = <<>>
    /\ \/ \E d \in SeqsUpTo(HeaderMembers, MaxMembers) : arg = JSONArg(d)
       \/ \E d \in SeqsUpTo(HeaderMembers, 1) : arg = CutArg(d)
       \/ \E t \in SeqsUpTo(HeaderChars, MaxHeaderLen) : arg = PairsArg(t)
    /\ ret = <<>>

\* A call of the Go ParseHeaders.
CallGoParseHeaders ==
    /\ "ParseHeaders" \notin DOMAIN ret
    /\ ret' = Put(ret, "ParseHeaders", ParseHeaders(arg.input))
    /\ UNCHANGED <<newClientVars, client, trackerVars, arg>>

\* A call of the TypeScript parseHeaders.
CallTsParseHeaders ==
    /\ "parseHeaders" \notin DOMAIN ret
    /\ ret' = Put(ret, "parseHeaders", parseHeaders(arg.input))
    /\ UNCHANGED <<newClientVars, client, trackerVars, arg>>

HeadersNext == CallGoParseHeaders \/ CallTsParseHeaders

SpecHeaders == HeadersInit /\ [][HeadersNext]_vars

(***************************************************************************)
(* RPCConfigParser.parseUrls, isValidUrl and loadConfig (TypeScript). A    *)
(* URL string is a sequence of spaces, commas and words (runs of other     *)
(* characters); a candidate holds at most one word.                        *)
(***************************************************************************)
\* new URL(urlString): leading and trailing spaces are stripped before the
\* text is parsed; the protocol of the URL, or a TypeError.
NewURL(urlString) ==
    LET t == TrimSpace(urlString)
    IN  IF Len(t) = 1 /\ Scheme(t[1]) # ""
        THEN [threw |-> FALSE, protocol |-> Scheme(t[1]) \o ":"]
        ELSE [threw |-> TRUE, protocol |-> ""]

\* RPCConfigParser.isValidUrl(urlString).
isValidUrl(urlString) ==
    LET url == NewURL(urlString)
    IN  IF url.threw THEN FALSE
        ELSE url.protocol = "http:" \/ url.protocol = "https:"

\* A value of type string | string[].
StringValue(str) == [kind |-> "string", str |-> str, arr |-> <<>>]
ArrayValue(arr) == [kind |-> "array", str |-> <<>>, arr |-> arr]

\* RPCConfigParser.parseUrls(input).
parseUrls(input) ==
    LET parts == Split(input.str, ",")
        urls == IF input.kind = "array" THEN input.arr
                ELSE [i \in 1..Len(parts) |-> TrimSpace(parts[i])]
        validUrls == SelectSeq(urls, isValidUrl)
    IN  IF Len(validUrls) = 0
        THEN [threw |-> TRUE, message |-> "No valid RPC URLs provided", urls |-> <<>>]
        ELSE [threw |-> FALSE, message |-> "", urls |-> validUrls]

\* JavaScript truthiness of an optional value (<<>> is undefined): of a
\* string | string[], of a string, of a number, of a record | string.
TruthyUrls(o) == o # <<>> /\ (o[1].kind = "array" \/ o[1].str # <<>>)
TruthyString(o) == o # <<>> /\ o[1] # <<>>
TruthyNumber(o) == o # <<>> /\ o[1] # 0
TruthyHeaders(o) == o # <<>> /\ (o[1].kind = "record" \/ o[1].str # <<>>)

defaultTimeout == 30000
defaultRetries == 3
retryDelay == 1000
maxRedirects == 5

ConfigError(message) == [threw |-> TRUE, message |-> message, cfg |-> <<>>]

\* The RPCConfig loadConfig builds from the URLs it parsed.
ConfigOf(options, env, urls) ==
    LET headers ==
            IF TruthyHeaders(options.headers)
            THEN IF options.headers[1].kind = "string"
                 THEN <<parseHeaders(options.headers[1].str)>>
                 ELSE <<options.headers[1].rec>>
            ELSE IF TruthyString(env.STELLAR_RPC_HEADERS)
                 THEN <<parseHeaders(env.STELLAR_RPC_HEADERS[1])>>
                 ELSE <<>>
    IN  [urls |-> urls,
         timeout |-> IF TruthyNumber(options.timeout)
                     THEN options.timeout[1] ELSE defaultTimeout,
         retries |-> IF TruthyNumber(options.retries)
                     THEN options.retries[1] ELSE defaultRetries,
         retryDelay |-> retryDelay,
         circuitBreakerThreshold |-> circuitBreakerThreshold,
         circuitBreakerTimeout |-> circuitBreakerTimeout,
         maxRedirects |-> maxRedirects,
         headers |-> IF headers # <<>> /\ DOMAIN headers[1] # {}
                     THEN headers ELSE <<>>]

\* Faulty variant: the environment variable is taken before the option.
loadConfig_EnvFirst(options, env) ==
    LET urlInput == IF TruthyString(env.STELLAR_RPC_URLS)
                    THEN <<StringValue(env.STELLAR_RPC_URLS[1])>>
                    ELSE IF TruthyUrls(options.rpc) THEN options.rpc ELSE <<>>
    IN  IF urlInput = <<>>
        THEN ConfigError("No RPC URLs configured. Use --rpc flag or STELLAR_RPC_URLS env variable")
        ELSE LET parsed == parseUrls(urlInput[1])
             IN  IF parsed.threw THEN ConfigError(parsed.message)
                 ELSE [threw |-> FALSE, message |-> "",
                       cfg |-> <<ConfigOf(options, env, parsed.urls)>>]

\* RPCConfigParser.loadConfig(options), reading process.env.
loadConfig(options, env) ==
    LET urlInput == IF TruthyUrls(options.rpc) THEN options.rpc
                    ELSE IF TruthyString(env.STELLAR_RPC_URLS)
                         THEN <<StringValue(env.STELLAR_RPC_URLS[1])>>
                         ELSE <<>>
    IN  IF urlInput = <<>>
        THEN ConfigError("No RPC URLs configured. Use --rpc flag or STELLAR_RPC_URLS env variable")
        ELSE LET parsed == parseUrls(urlInput[1])
             IN  IF parsed.threw THEN ConfigError(parsed.message)
                 ELSE [threw |-> FALSE, message |-> "",
                       cfg |-> <<ConfigOf(options, env, parsed.urls)>>]

\* The candidate URLs of the model: a word or nothing, between spaces.
UrlWords == {"https://rpc1.com", "http://localhost:8080", "ftp://wrong.com", "invalid-url"}
Spaces(n) == [i \in 1..n |-> " "]
Candidates ==
    {Spaces(l) \o w \o Spaces(r) :
        l \in 0..MaxPad, r \in 0..MaxPad, w \in {<<>>} \cup {<<x>> : x \in UrlWords}}

RECURSIVE Join(_, _)
Join(ss, sep) ==
    IF ss = <<>> THEN <<>>
    ELSE IF Len(ss) = 1 THEN ss[1]
    ELSE ss[1] \o <<sep>> \o Join(Tail(ss), sep)

\* The two ways of passing candidates cs: as one comma-separated string, or
\* as an array.
UrlArgsOf(cs) == {StringValue(Join(cs, ",")), ArrayValue(cs)}

NoNewClient ==
    /\ opts = <<>>
    /\ idx = 1
    /\ builder = newBuilder("")
    /\ pc = "options"
    /\ err = ""
    /\ client = <<>>
    /\ now = 0
    /\ mu = 0
    /\ procs = [p \in Procs |-> IdleProc]
    /\ history = <<>>

UrlsInit ==
    /\ NoNewClient
    /\ \E cs \in SeqsUpTo(Candidates, MaxUrls) : arg \in UrlArgsOf(cs)
    /\ ret = <<>>

\* A call of parseUrls.
CallParseUrls ==
    /\ "parseUrls" \notin DOMAIN ret
    /\ ret' = Put(ret, "parseUrls", parseUrls(arg))
    /\ UNCHANGED <<newClientVars, client, trackerVars, arg>>

UrlsNext == CallParseUrls

SpecUrls == UrlsInit /\ [][UrlsNext]_vars

\* The options and environments loadConfig is called with.
RpcOptions ==
    {<<>>,
     <<StringValue(<<>>)>>,
     <<StringValue(<<"https://rpc1.com">>)>>,
     <<StringValue(<<"invalid-url">>)>>,
     <<StringValue(<<"https://rpc1.com", ",", " ", "invalid-url">>)>>,
     <<ArrayValue(<<>>)>>,
     <<ArrayValue(<<<<"https://rpc1.com">>, <<"http://localhost:8080">>>>)>>,
     <<ArrayValue(<<<<"ftp://wrong.com">>>>)>>}

HeaderOptions ==
    {<<>>,
     <<[kind |-> "string", str |-> <<>>, rec |-> <<>>]>>,
     <<[kind |-> "string", str |-> <<"X", "=", "1">>, rec |-> <<>>]>>,
     <<[kind |-> "record", str |-> <<>>, rec |-> Put(<<>>, <<"A">>, <<"1">>)]>>}

ConfigArgs ==
    {[options |-> [rpc |-> r, timeout |-> t, retries |-> n, headers |-> h],
      env |-> [STELLAR_RPC_URLS |-> eu, STELLAR_RPC_HEADERS |-> eh]] :
        r \in RpcOptions,
        t \in {<<>>, <<0>>, <<5000>>},
        n \in {<<>>, <<0>>, <<5>>},
        h \in HeaderOptions,
        eu \in {<<>>, <<<<>>>>, <<<<"http://localhost:8080">>>>, <<<<"ftp://wrong.com">>>>},
        eh \in {<<>>, <<<<"X", ":", "1">>>>}}

ConfigInit ==
    /\ NoNewClient
    /\ arg \in ConfigArgs
    /\ ret = <<>>

\* A call of loadConfig.
CallLoadConfig ==
    /\ "loadConfig" \notin DOMAIN ret
    /\ ret' = Put(ret, "loadConfig", loadConfig(arg.options, arg.env))
    /\ UNCHANGED <<newClientVars, client, trackerVars, arg>>

ConfigNext == CallLoadConfig

SpecConfig == ConfigInit /\ [][ConfigNext]_vars

(***************************************************************************)
(* Properties of NewClient.                                                *)
(***************************************************************************)
IsHTTPURL(u) == Scheme(u) \in {"http", "https"}

\* Whether an option value is one its option function rejects.
OptFails(o) ==
    CASE o.kind \in {"WithHorizonURL", "WithSorobanURL"} -> o.url # "" /\ ~IsHTTPURL(o.url)
      [] o.kind = "WithAltURLs" -> \E i \in 1..Len(o.urls) : ~IsHTTPURL(o.urls[i])
      [] o.kind = "WithNetworkConfig" ->
            \/ o.cfg.Name = ""
            \/ ~IsHTTPURL(o.cfg.HorizonURL)
            \/ o.cfg.NetworkPassphrase = ""
      [] OTHER -> FALSE

FailingIndexes == {i \in 1..Len(opts) : OptFails(opts[i])}

FirstFailing == CHOOSE i \in FailingIndexes : \A j \in FailingIndexes : i <= j

Returned == pc = "returned"

\* C1: NewClient applies the options in order and stops at the first one that
\* returns an error: it returns that error with a nil client, the builder holds
\* exactly the effect of the options before the failing one (none after it is
\* applied, validate and build did not run), and a client is returned only
\* when every option succeeded.
C1_StopAtFirstError ==
    Returned =>
        IF FailingIndexes # {}
        THEN /\ err = ApplyOpt(builder, opts[FirstFailing])[2]
             /\ err # ""
             /\ client = <<>>
             /\ idx = FirstFailing
             /\ \E t \in EnvTokens :
                    builder = Applied(newBuilder(t), opts, FirstFailing - 1)
        ELSE /\ err = ""
             /\ client # <<>>
             /\ idx = Len(opts) + 1

\* A call whose second of three options fails.
C1_Witness ==
    /\ Returned
    /\ Len(opts) = 3
    /\ FailingIndexes = {2, 3}
    /\ err # ""
    /\ builder # newBuilder(builder.token)

\* C2: every returned client has a non-empty AltURLs whose first element is
\* the client's HorizonURL.
C2_AltURLsHeadIsHorizonURL ==
    (Returned /\ client # <<>>) =>
        /\ Len(client[1].AltURLs) > 0
        /\ client[1].AltURLs[1] = client[1].HorizonURL

\* C3: WithAltURLs is all-or-nothing: a non-empty list of valid URLs replaces
\* the alternate list and makes its first entry the primary URL; a list with
\* an invalid entry yields an error, leaves both unchanged and ends NewClient
\* without a client.
C3_WithAltURLsAllOrNothing ==
    [][ (pc = "options" /\ idx <= Len(opts) /\ opts[idx].kind = "WithAltURLs") =>
            LET us == opts[idx].urls
            IN  IF \A i \in 1..Len(us) : IsHTTPURL(us[i])
                THEN /\ err' = ""
                     /\ pc' = "options"
                     /\ Len(us) > 0 =>
                            /\ builder'.altURLs = us
                            /\ builder'.horizonURL = us[1]
                ELSE /\ err' # ""
                     /\ builder'.altURLs = builder.altURLs
                     /\ builder'.horizonURL = builder.horizonURL
                     /\ pc' = "returned"
                     /\ client' = <<>> ]_vars

\* A rejected list after an option that had set the alternate list, and an
\* accepted one.
C3_Witness ==
    /\ Returned
    /\ Len(opts) = 3
    /\ opts[1].kind = "WithHorizonURL" /\ opts[1].url # ""
    /\ opts[2].kind = "WithAltURLs" /\ Len(opts[2].urls) = 2
    /\ opts[3].kind = "WithAltURLs" /\ Len(opts[3].urls) = 2
    /\ idx = 3
    /\ err # ""
    /\ builder.altURLs = opts[2].urls

SingleURLKinds == {"WithHorizonURL", "WithSorobanURL"}

\* C4 as stated: a single-URL option whose URL is not an absolute http or
\* https URL, the empty string included, makes NewClient fail.
C4_Original ==
    (Returned /\ \E i \in 1..Len(opts) :
                    opts[i].kind \in SingleURLKinds /\ ~IsHTTPURL(opts[i].url))
        => (err # "" /\ client = <<>>)

\* Whether option o assigns the builder's primary (secondary) URL.
SetsHorizon(o) ==
    \/ o.kind \in {"WithHorizonURL", "WithNetworkConfig"}
    \/ o.kind = "WithAltURLs" /\ Len(o.urls) > 0
SetsSoroban(o) == o.kind \in {"WithSorobanURL", "WithNetworkConfig"}

\* C4 (amended): a single-URL option fails NewClient with a validation error
\* whenever its URL is non-empty and not an absolute http or https URL; the
\* empty string is accepted without error; when the URL is valid, the built
\* client's corresponding URL equals it unless a later option overrides it.
C4_SingleURLOption ==
    Returned =>
        /\ (\E i \in 1..Len(opts) :
                /\ opts[i].kind \in SingleURLKinds
                /\ opts[i].url # ""
                /\ ~IsHTTPURL(opts[i].url))
              => (err # "" /\ client = <<>>)
        /\ (err # "" /\ opts[idx].kind \in SingleURLKinds)
              => (opts[idx].url # "" /\ ~IsHTTPURL(opts[idx].url)
                  /\ err \in {WrapValidationError("invalid HorizonURL"),
                               WrapValidationError("invalid SorobanURL")})
        /\ client # <<>> =>
              \A i \in 1..Len(opts) :
                 /\ ( /\ opts[i].kind = "WithHorizonURL"
                      /\ IsHTTPURL(opts[i].url)
                      /\ \A j \in (i + 1)..Len(opts) : ~SetsHorizon(opts[j]) )
                       => client[1].HorizonURL = opts[i].url
                 /\ ( /\ opts[i].kind = "WithSorobanURL"
                      /\ IsHTTPURL(opts[i].url)
                      /\ \A j \in (i + 1)..Len(opts) : ~SetsSoroban(opts[j]) )
                       => client[1].SorobanURL = opts[i].url

\* A client built from an empty and a valid single-URL option.
C4_Witness ==
    /\ Returned
    /\ client # <<>>
    /\ \E i, j \in 1..Len(opts) :
          /\ opts[i].kind = "WithHorizonURL" /\ opts[i].url = ""
          /\ opts[j].kind = "WithSorobanURL" /\ opts[j].url # ""
          /\ client[1].SorobanURL = opts[j].url

\* The network the options resolve to: the argument of the last WithNetwork
\* option, Mainnet when there is none or it is empty.
NetworkIndexes == {i \in 1..Len(opts) : opts[i].kind = "WithNetwork"}
ResolvedNetwork ==
    IF NetworkIndexes = {} THEN Mainnet
    ELSE LET last == CHOOSE i \in NetworkIndexes : \A j \in NetworkIndexes : j <= i
         IN  IF opts[last].net = "" THEN Mainnet ELSE opts[last].net

CanonicalHorizonURL(net) ==
    IF net = Testnet THEN TestnetHorizonURL
    ELSE IF net = Futurenet THEN FuturenetHorizonURL
    ELSE MainnetHorizonURL

\* C5: when no option sets a primary URL, a secondary URL or a network
\* config, the client's Network is the one the options resolve to and its
\* HorizonURL is the canonical endpoint of that network; NewClient() yields
\* Mainnet and MainnetHorizonURL.
C5_DefaultHorizonURL ==
    (Returned /\ client # <<>>
       /\ \A i \in 1..Len(opts) :
             /\ opts[i].kind \notin {"WithHorizonURL", "WithSorobanURL", "WithNetworkConfig"}
             /\ opts[i].kind = "WithAltURLs" => opts[i].urls = <<>>)
      => /\ client[1].Network = ResolvedNetwork
         /\ client[1].HorizonURL = CanonicalHorizonURL(ResolvedNetwork)
         /\ opts = <<>> => (client[1].Network = Mainnet
                             /\ client[1].HorizonURL = MainnetHorizonURL)

\* A client for Futurenet, set by the last of two WithNetwork options.
C5_Witness ==
    /\ Returned
    /\ client # <<>>
    /\ Len(opts) = 3
    /\ \A i \in 1..3 : opts[i].kind \in {"WithNetwork", "WithToken"}
    /\ opts[1].kind = "WithNetwork" /\ opts[1].net = Testnet
    /\ opts[3].kind = "WithNetwork" /\ opts[3].net = Futurenet
    /\ client[1].HorizonURL = FuturenetHorizonURL

(***************************************************************************)
(* Properties of the failure table.                                        *)
(***************************************************************************)
\* C6: per-endpoint circuit breaker. A URL with no failure in effect (a fresh
\* client, or right after recordSuccess) has failures 0, no lastFailure and is
\* eligible; after circuitBreakerThreshold consecutive failures it is not
\* eligible until circuitBreakerTimeout has elapsed since the last failure,
\* and eligible from then on.
C6_CircuitBreaker ==
    \A u \in URLsOf(client[1]) :
        LET c == client[1]
            h == history[u]
        IN  /\ h.fails = 0 =>
                  /\ Get(c.failures, u) = 0
                  /\ u \notin DOMAIN c.lastFailure
                  /\ isEligible(c, u, now)
            /\ (h.fails >= circuitBreakerThreshold
                   /\ now - h.lastAt < circuitBreakerTimeout)
                  => ~isEligible(c, u, now)
            /\ (h.fails >= circuitBreakerThreshold
                   /\ now - h.lastAt >= circuitBreakerTimeout)
                  => isEligible(c, u, now)

\* One URL whose breaker opened and timed out, another whose breaker is open,
\* and a success recorded in between.
C6_Witness ==
    \E u, v \in URLsOf(client[1]) :
        /\ history[u].fails = circuitBreakerThreshold
        /\ now - history[u].lastAt >= circuitBreakerTimeout
        /\ isEligible(client[1], u, now)
        /\ history[v].fails = circuitBreakerThreshold
        /\ history[v].lastAt = now
        /\ ~isEligible(client[1], v, now)

C7_CountsMatch ==
    \A u \in URLsOf(client[1]) : Get(client[1].failures, u) = history[u].fails

C7_OwnEntryOnly ==
    \A u \in URLsOf(client[1]) :
        (\/ Get(client'[1].failures, u) # Get(client[1].failures, u)
         \/ (u \in DOMAIN client'[1].lastFailure) # (u \in DOMAIN client[1].lastFailure)
         \/ Get(client'[1].lastFailure, u) # Get(client[1].lastFailure, u))
        => \E p \in Procs :
              /\ procs[p].pc \in {"locked", "store"}
              /\ procs[p].url = u
              /\ procs'[p].pc = "idle"

\* C7: no lost updates: under every interleaving of concurrent recordFailure
\* and recordSuccess calls, failures[url] is the number of recordFailure(url)
\* calls that took effect since the last recordSuccess(url), and a call
\* changes only the entries of its own URL.
C7_NoLostUpdates == []C7_CountsMatch /\ [][C7_OwnEntryOnly]_vars

\* Two callers on the same URL, one waiting for the lock the other holds, with
\* failures of both URLs already recorded.
C7_Witness ==
    \E p, q \in Procs, u, v \in URLsOf(client[1]) :
        /\ p # q /\ u # v
        /\ procs[p].pc = "store" /\ procs[p].url = u
        /\ procs[q].pc = "lock" /\ procs[q].url = u /\ procs[q].op = "recordFailure"
        /\ history[u].fails = 2
        /\ history[v].fails = 1

(***************************************************************************)
(* Properties of the header parsers.                                       *)
(***************************************************************************)
\* The mapping a JSON object denotes once its values are coerced to strings:
\* the object's keys, each with the string form of its last value.
CoercedObject(doc) ==
    [k \in {doc[i].key : i \in 1..Len(doc)} |->
        LET last == Max({i \in 1..Len(doc) : doc[i].key = k})
        IN  IF doc[last].isString THEN doc[last].str ELSE FormatNat(doc[last].num)]

\* C8: given the text of a JSON object, the Go ParseHeaders and the TypeScript
\* parseHeaders both return exactly the object's keys, each value coerced to
\* its string form, also when some values are numbers.
C8_JSONHeadersCoerced ==
    arg.kind = "json" =>
        /\ "ParseHeaders" \in DOMAIN ret => ret["ParseHeaders"] = CoercedObject(arg.doc)
        /\ "parseHeaders" \in DOMAIN ret => ret["parseHeaders"] = CoercedObject(arg.doc)

\* The TypeScript half of C8, and the Go half for objects of strings.
C8_TsAndStringsOnly ==
    arg.kind = "json" =>
        /\ ("ParseHeaders" \in DOMAIN ret
              /\ \A i \in 1..Len(arg.doc) : arg.doc[i].isString)
             => ret["ParseHeaders"] = CoercedObject(arg.doc)
        /\ "parseHeaders" \in DOMAIN ret => ret["parseHeaders"] = CoercedObject(arg.doc)

(***************************************************************************)
(* Properties of parseUrls and loadConfig.                                 *)
(***************************************************************************)
\* A string that is exactly one http or https URL.
IsHTTPText(t) == Len(t) = 1 /\ Scheme(t[1]) \in {"http", "https"}

\* The candidates of a string | string[]: the comma-separated parts, or the
\* entries.
CandidatesOf(v) == IF v.kind = "array" THEN v.arr ELSE Split(v.str, ",")

TrimmedValid(v) ==
    LET cs == CandidatesOf(v)
    IN  SelectSeq([i \in 1..Len(cs) |-> TrimSpace(cs[i])], IsHTTPText)

\* C9: parseUrls returns exactly the candidates that are valid http/https
\* URLs, each trimmed of surrounding white space, in input order, and fails
\* when no candidate is valid.
C9_ParseUrlsTrimmedValid ==
    "parseUrls" \in DOMAIN ret =>
        IF TrimmedValid(arg) = <<>>
        THEN ret["parseUrls"].threw
        ELSE /\ ~ret["parseUrls"].threw
             /\ ret["parseUrls"].urls = TrimmedValid(arg)

\* Whether an optional endpoint source would yield at least one valid URL.
Usable(o) == o # <<>> /\ TrimmedValid(o[1]) # <<>>

EnvUrls == IF arg.env.STELLAR_RPC_URLS = <<>> THEN <<>>
           ELSE <<StringValue(arg.env.STELLAR_RPC_URLS[1])>>

\* C10 as stated: loadConfig fails exactly when neither the rpc option nor
\* the environment variable would yield a valid URL.
C10_Original ==
    "loadConfig" \in DOMAIN ret =>
        (ret["loadConfig"].threw <=> ~(Usable(arg.options.rpc) \/ Usable(EnvUrls)))

\* The one source loadConfig reads: the rpc option when it is given and not
\* empty (a non-empty string or any array), else the environment variable.
SelectedSource ==
    IF arg.options.rpc # <<>>
       /\ (arg.options.rpc[1].kind = "array" \/ Len(arg.options.rpc[1].str) > 0)
    THEN arg.options.rpc
    ELSE EnvUrls

\* C10 (amended): loadConfig takes its endpoints from the rpc option when it
\* is given and not empty, and from STELLAR_RPC_URLS only otherwise; it fails
\* with a configuration error exactly when that selected source is absent,
\* empty or yields no valid URL, also when the other source would yield one.
C10_SelectedSourceDecides ==
    "loadConfig" \in DOMAIN ret =>
        LET r == ret["loadConfig"]
        IN  /\ r.threw <=> ~Usable(SelectedSource)
            /\ (arg.options.rpc = <<>> /\ arg.env.STELLAR_RPC_URLS = <<>>) => r.threw
            /\ r.threw => r.cfg = <<>> /\ r.message # ""
            /\ ~r.threw => r.cfg[1].urls = parseUrls(SelectedSource[1]).urls

\* The option yields no valid URL, the environment variable would, and
\* loadConfig fails.
C10_Witness ==
    /\ "loadConfig" \in DOMAIN ret
    /\ arg.options.rpc # <<>>
    /\ ~Usable(arg.options.rpc)
    /\ Usable(EnvUrls)
    /\ ret["loadConfig"].threw

\* C11: loadConfig returns the caller's timeout and retries whenever they are
\* supplied, 0 included, and the defaults 30000 and 3 only when they are
\* unset; retryDelay, circuitBreakerThreshold, circuitBreakerTimeout and
\* maxRedirects are 1000, 5, 60000 and 5 in every returned configuration.
C11_NumericOptions ==
    ("loadConfig" \in DOMAIN ret /\ ~ret["loadConfig"].threw) =>
        LET cfg == ret["loadConfig"].cfg[1]
            o == arg.options
        IN  /\ cfg.timeout = IF o.timeout # <<>> THEN o.timeout[1] ELSE 30000
            /\ cfg.retries = IF o.retries # <<>> THEN o.retries[1] ELSE 3
            /\ cfg.retryDelay = 1000
            /\ cfg.circuitBreakerThreshold = 5
            /\ cfg.circuitBreakerTimeout = 60000
            /\ cfg.maxRedirects = 5

\* The part of C11 that holds: supplied numbers other than 0, unset options
\* and the fixed fields.
C11_NonZeroOptions ==
    ("loadConfig" \in DOMAIN ret /\ ~ret["loadConfig"].threw) =>
        LET cfg == ret["loadConfig"].cfg[1]
            o == arg.options
        IN  /\ cfg.timeout = IF o.timeout # <<>> /\ o.timeout[1] # 0
                             THEN o.timeout[1] ELSE 30000
            /\ cfg.retries = IF o.retries # <<>> /\ o.retries[1] # 0
                             THEN o.retries[1] ELSE 3
            /\ cfg.retryDelay = 1000
            /\ cfg.circuitBreakerThreshold = 5
            /\ cfg.circuitBreakerTimeout = 60000
            /\ cfg.maxRedirects = 5

(***************************************************************************)
(* Properties of the header parsers on text that is not JSON.              *)
(***************************************************************************)
\* Whether s is the text of a JSON number (an unsigned integer between
\* optional spaces).
IsJSONNumber(s) ==
    LET t == TrimSpace(s)
    IN  /\ t # <<>>
        /\ \A i \in 1..Len(t) : IsDigit(t[i])
        /\ Len(t) > 1 => t[1] # "0"

NotJSON(s) == ~JSONObject(s).ok /\ ~IsJSONNumber(s)

\* The entry a segment contributes when it is split at its first "=" or ":",
\* whichever comes first, and key and value are trimmed: none when there is
\* no separator or the key or the value is empty.
SegmentEntry(seg) ==
    LET seps == {i \in 1..Len(seg) : seg[i] = "=" \/ seg[i] = ":"}
        first == Min(seps)
        key == TrimSpace(SubSeq(seg, 1, first - 1))
        value == TrimSpace(SubSeq(seg, first + 1, Len(seg)))
    IN  IF seps = {} THEN <<>>
        ELSE IF key = <<>> \/ value = <<>> THEN <<>>
        ELSE <<<<key, value>>>>

\* The mapping of a comma-separated text, a later segment replacing an
\* earlier one with the same key.
SegmentsMapping(input) ==
    LET segs == Split(input, ",")
    IN  Assign(<<>>, Flatten([i \in 1..Len(segs) |-> SegmentEntry(segs[i])]))

\* C12: for text that is not JSON, the Go ParseHeaders and the TypeScript
\* parseHeaders both return the mapping of the comma-separated segments, each
\* split at its first "=" or ":" (whichever comes first) with key and value
\* trimmed, segments without separator or with an empty key or value
\* contributing nothing; the empty text gives the empty mapping, and the two
\* functions return the same mapping.
C12_PairsHeaders ==
    NotJSON(arg.input) =>
        /\ "ParseHeaders" \in DOMAIN ret =>
              ret["ParseHeaders"] = SegmentsMapping(arg.input)
        /\ "parseHeaders" \in DOMAIN ret =>
              ret["parseHeaders"] = SegmentsMapping(arg.input)
        /\ {"ParseHeaders", "parseHeaders"} \subseteq DOMAIN ret =>
              ret["ParseHeaders"] = ret["parseHeaders"]

\* The part of C12 that holds: the Go ParseHeaders on every such text, and
\* the TypeScript parseHeaders on text where no ":" comes before an "=" in a
\* segment.
C12_GoAndEqualsFirst ==
    NotJSON(arg.input) =>
        /\ "ParseHeaders" \in DOMAIN ret =>
              ret["ParseHeaders"] = SegmentsMapping(arg.input)
        /\ ("parseHeaders" \in DOMAIN ret
              /\ \A i \in 1..Len(arg.input) : arg.input[i] = ":" =>
                    \A j \in (i + 1)..Len(arg.input) :
                        arg.input[j] = "=" =>
                            \E k \in (i + 1)..(j - 1) : arg.input[k] = ",")
             => ret["parseHeaders"] = SegmentsMapping(arg.input)

(***************************************************************************)
(* The network configuration of a returned client.                         *)
(***************************************************************************)
ConfigIndexes == {i \in 1..Len(opts) : opts[i].kind = "WithNetworkConfig"}

CanonicalConfig(net) ==
    IF net = Testnet THEN TestnetConfig
    ELSE IF net = Futurenet THEN FuturenetConfig
    ELSE MainnetConfig

\* C13: for any order of WithNetwork and WithNetworkConfig options, a
\* returned client's Config is the canonical config of its Network when no
\* config was supplied, and otherwise the supplied config, whose Name is the
\* client's Network and, absent later URL options, whose HorizonURL is the
\* client's HorizonURL.
C13_ConfigMatchesNetwork ==
    (Returned /\ client # <<>>) =>
        LET c == client[1]
        IN  IF ConfigIndexes = {}
            THEN c.Config = CanonicalConfig(c.Network)
            ELSE LET last == Max(ConfigIndexes)
                 IN  /\ c.Config = opts[last].cfg
                     /\ c.Config.Name = c.Network
                     /\ (\A j \in (last + 1)..Len(opts) : ~SetsHorizon(opts[j]))
                           => c.HorizonURL = c.Config.HorizonURL

\* The part of C13 that holds: the Name of a supplied config is the client's
\* Network when no WithNetwork option follows the last WithNetworkConfig.
C13_NoLaterWithNetwork ==
    (Returned /\ client # <<>>) =>
        LET c == client[1]
        IN  IF ConfigIndexes = {}
            THEN c.Config = CanonicalConfig(c.Network)
            ELSE LET last == Max(ConfigIndexes)
                 IN  /\ c.Config = opts[last].cfg
                     /\ (\A j \in (last + 1)..Len(opts) : opts[j].kind # "WithNetwork")
                           => c.Config.Name = c.Network
                     /\ (\A j \in (last + 1)..Len(opts) : ~SetsHorizon(opts[j]))
                           => c.HorizonURL = c.Config.HorizonURL

====
